---- MODULE Spec2Model ----
(***************************************************************************)
(* Model of examples/mock-a2a-server.py: the POST handler of the mock A2A  *)
(* endpoint (A2AHandler.do_POST and the four JSON-RPC method handlers) and *)
(* the module-level task table it works on.                                *)
(*                                                                         *)
(* One step of the model is one POST request handled from its first line   *)
(* to its last (HTTPServer handles one request at a time).  A request      *)
(* whose handling raises an exception that do_POST does not catch ends     *)
(* without any response being written; the server itself keeps running.    *)
(***************************************************************************)
EXTENDS Integers, Sequences, FiniteSets, TLC

VARIABLES
    tasks,      \* the module-level dict `tasks`, in insertion order: <<[key, value], ...>>
    uuids,      \* the values uuid.uuid4() has returned so far
    request,    \* the POST request handled last (NoRequest before the first)
    response,   \* what was written for it: [status, body], or [exception] when nothing was
    sent,       \* history: number of message/send requests answered with a result
    cancelled   \* history: task ids for which a tasks/cancel was answered with a result

vars == <<tasks, uuids, request, response, sent, cancelled>>

----------------------------------------------------------------------------
(* Bounds *)

\* message/send requests handled to completion in one behaviour
MaxTasks == 2

\* parts in one message of the text-classification specification
MaxParts == 2

----------------------------------------------------------------------------
(* Python values, as json.loads produces them.  Strings whose characters   *)
(* the code looks at (part texts) are sequences of one-character strings;  *)
(* strings the code only compares or copies are TLA+ strings.              *)

PyNone == [t |-> "None"]

PyStr(s) == [t |-> "str", s |-> s]

PyText(chars) == [t |-> "str", chars |-> chars]

PyNum(n) == [t |-> "num", n |-> n]

PyList(items) == [t |-> "list", items |-> items]

PyDict(fields) == [t |-> "dict", fields |-> fields]

\* {}
EmptyDict == PyDict([k \in {} |-> PyNone])

\* an operation either returns a value or raises
Return(v) == [value |-> v]

Raise(exc) == [raised |-> exc]

Raised(r) == "raised" \in DOMAIN r

\* d.get(key, default): only dicts have .get
PyGet(d, key, default) ==
    IF d.t # "dict" THEN Raise("AttributeError")
    ELSE Return(IF key \in DOMAIN d.fields THEN d.fields[key] ELSE default)

\* needle in haystack, for two strings: substring test
Contains(needle, hay) ==
    \E i \in 0..(Len(hay) - Len(needle)) :
        \A j \in 1..Len(needle) : hay[i + j] = needle[j]

UpperCase ==
    <<"A", "B", "C", "D", "E", "F", "G", "H", "I", "J", "K", "L", "M",
      "N", "O", "P", "Q", "R", "S", "T", "U", "V", "W", "X", "Y", "Z">>

LowerCase ==
    <<"a", "b", "c", "d", "e", "f", "g", "h", "i", "j", "k", "l", "m",
      "n", "o", "p", "q", "r", "s", "t", "u", "v", "w", "x", "y", "z">>

\* str.lower()
lower(s) ==
    [i \in 1..Len(s) |->
        IF \E k \in DOMAIN UpperCase : UpperCase[k] = s[i]
        THEN LowerCase[CHOOSE k \in DOMAIN UpperCase : UpperCase[k] = s[i]]
        ELSE s[i]]

----------------------------------------------------------------------------
(* The dict `tasks` *)

\* key in d, for a key that can be hashed
HasKey(d, key) == \E i \in DOMAIN d : d[i].key = key

\* a lookup that ignores the key
Lookup_first(d, key) == d[1].value

\* d[key]
Lookup(d, key) == d[CHOOSE i \in DOMAIN d : d[i].key = key].value

\* d[key] = value: replaces the value of an existing key, else appends
SetItem(d, key, value) ==
    IF HasKey(d, key)
    THEN [i \in DOMAIN d |-> IF d[i].key = key THEN [key |-> key, value |-> value] ELSE d[i]]
    ELSE Append(d, [key |-> key, value |-> value])

\* list(d.values())
Values(d) == [i \in DOMAIN d |-> d[i].value]

\* hash(x), which `x in tasks` computes first: lists and dicts have none
Hashable(x) == x.t \notin {"list", "dict"}

----------------------------------------------------------------------------
(* send_json and the handlers.  A handler's outcome is the task table it   *)
(* leaves, the response it wrote and whether it drew a uuid.               *)

send_json(data, status) == [status |-> status, body |-> data]

Responded(table, resp, drew) == [tasks |-> table, response |-> resp, drew |-> drew]

\* an exception leaves do_POST: nothing is written, the table is as it was
Unhandled(r) == [tasks |-> tasks, response |-> [exception |-> r.raised], drew |-> FALSE]

TextKey == <<"t", "e", "x", "t">>

\* 'text' in part
has_text(part) ==
    CASE part.t = "dict" -> Return("text" \in DOMAIN part.fields)
      [] part.t = "str"  -> Return(Contains(TextKey, part.chars))
      [] part.t = "list" -> Return(\E i \in DOMAIN part.items : part.items[i] = PyText(TextKey))
      [] OTHER           -> Raise("TypeError")

\* for part in parts: the elements the loop visits
iterate(parts) ==
    CASE parts.t = "list" -> Return(parts.items)
      [] parts.t = "str"  -> Return([i \in DOMAIN parts.chars |-> PyText(<<parts.chars[i]>>)])
      [] OTHER            -> Raise("TypeError")

RECURSIVE extract_text(_, _)
\* the loop of lines 139-141, from the parts still to visit and the text so far
extract_text(parts, text) ==
    IF Len(parts) = 0 THEN Return(text)
    ELSE LET part == Head(parts)
             has == has_text(part)
         IN  IF Raised(has) THEN has
             ELSE IF ~has.value THEN extract_text(Tail(parts), text)
             ELSE IF part.t # "dict" THEN Raise("TypeError")
             ELSE IF part.fields["text"].t # "str" THEN Raise("TypeError")
             ELSE extract_text(Tail(parts), text \o part.fields["text"].chars)

GREETING ==
    <<"H", "e", "l", "l", "o", "!", " ", "I", "'", "m", " ", "t", "h", "e", " ",
      "M", "o", "c", "k", " ", "T", "e", "s", "t", " ", "A", "g", "e", "n", "t",
      ".", " ", "H", "o", "w", " ", "c", "a", "n", " ", "I", " ", "h", "e", "l",
      "p", " ", "y", "o", "u", " ", "t", "o", "d", "a", "y", "?">>

HELP ==
    <<"I", "'", "m", " ", "a", " ", "m", "o", "c", "k", " ", "A", "2", "A", " ",
      "a", "g", "e", "n", "t", " ", "f", "o", "r", " ", "t", "e", "s", "t", "i",
      "n", "g", ".", " ", "I", " ", "c", "a", "n", " ", "e", "c", "h", "o", " ",
      "m", "e", "s", "s", "a", "g", "e", "s", " ", "a", "n", "d", " ", "r", "e",
      "s", "p", "o", "n", "d", " ", "t", "o", " ", "g", "r", "e", "e", "t", "i",
      "n", "g", "s", ".", " ", "T", "r", "y", " ", "s", "a", "y", "i", "n", "g",
      " ", "'", "h", "e", "l", "l", "o", "'", " ", "o", "r", " ", "a", "s", "k",
      " ", "m", "e", " ", "t", "o", " ", "'", "e", "c", "h", "o", "'", " ", "s",
      "o", "m", "e", "t", "h", "i", "n", "g", "!">>

ECHO_PREFIX == <<"E", "c", "h", "o", ":", " ">>

ACK_PREFIX ==
    <<"I", " ", "r", "e", "c", "e", "i", "v", "e", "d", " ", "y", "o", "u", "r",
      " ", "m", "e", "s", "s", "a", "g", "e", ":", " ", "'">>

ACK_SUFFIX ==
    <<"'", ".", " ", "I", "'", "m", " ", "a", " ", "m", "o", "c", "k", " ", "a",
      "g", "e", "n", "t", " ", "f", "o", "r", " ", "t", "e", "s", "t", "i", "n",
      "g", " ", "A", "2", "A", " ", "p", "r", "o", "t", "o", "c", "o", "l", " ",
      "i", "n", "t", "e", "g", "r", "a", "t", "i", "o", "n", ".">>

\* the chain with its help and echo branches the other way round
response_text_echo_first(text) ==
    IF Contains(<<"h", "e", "l", "l", "o">>, lower(text)) \/ Contains(<<"h", "i">>, lower(text))
    THEN GREETING
    ELSE IF Contains(<<"e", "c", "h", "o">>, lower(text))
    THEN ECHO_PREFIX \o text
    ELSE IF Contains(<<"h", "e", "l", "p">>, lower(text))
    THEN HELP
    ELSE ACK_PREFIX \o text \o ACK_SUFFIX

\* the if/elif chain of lines 147-154
response_text(text) ==
    IF Contains(<<"h", "e", "l", "l", "o">>, lower(text)) \/ Contains(<<"h", "i">>, lower(text))
    THEN GREETING
    ELSE IF Contains(<<"h", "e", "l", "p">>, lower(text))
    THEN HELP
    ELSE IF Contains(<<"e", "c", "h", "o">>, lower(text))
    THEN ECHO_PREFIX \o text
    ELSE ACK_PREFIX \o text \o ACK_SUFFIX

\* a task that takes the id the message came with, when it came with one
new_task_client_id(task_id, message, text) ==
    [id |-> IF "id" \in DOMAIN message.fields THEN message.fields["id"] ELSE task_id,
     state |-> "completed",
     messages |-> <<message,
                    PyDict([role |-> PyStr("agent"),
                            parts |-> PyList(<<PyDict([text |-> PyText(response_text(text))])>>)])>>]

\* a task that stores the incoming message under the user role
new_task_user_role(task_id, message, text) ==
    [id |-> task_id,
     state |-> "completed",
     messages |-> <<PyDict([k \in DOMAIN message.fields \cup {"role"} |->
                              IF k = "role" THEN PyStr("user") ELSE message.fields[k]]),
                    PyDict([role |-> PyStr("agent"),
                            parts |-> PyList(<<PyDict([text |-> PyText(response_text(text))])>>)])>>]

\* the task dict of lines 156-166
new_task(task_id, message, text) ==
    [id |-> task_id,
     state |-> "completed",
     messages |-> <<message,
                    PyDict([role |-> PyStr("agent"),
                            parts |-> PyList(<<PyDict([text |-> PyText(response_text(text))])>>)])>>]

handle_message_send(params, req_id, task_id) ==
    LET message == PyGet(params, "message", EmptyDict) IN
    IF Raised(message) THEN Unhandled(message)
    ELSE LET parts == PyGet(message.value, "parts", PyList(<<>>)) IN
    IF Raised(parts) THEN Unhandled(parts)
    ELSE LET visited == iterate(parts.value) IN
    IF Raised(visited) THEN Unhandled(visited)
    ELSE LET text == extract_text(visited.value, <<>>) IN
    IF Raised(text) THEN Unhandled(text)
    ELSE LET task == new_task(task_id, message.value, text.value) IN
         Responded(SetItem(tasks, task_id, task),
                   send_json([jsonrpc |-> "2.0", result |-> task, id |-> req_id], 200),
                   TRUE)

handle_tasks_get(params, req_id) ==
    LET task_id == PyGet(params, "taskId", PyNone) IN
    IF Raised(task_id) THEN Unhandled(task_id)
    ELSE IF ~Hashable(task_id.value) THEN Unhandled(Raise("TypeError"))
    ELSE IF HasKey(tasks, task_id.value)
    THEN Responded(tasks,
                   send_json([jsonrpc |-> "2.0", result |-> Lookup(tasks, task_id.value),
                              id |-> req_id], 200),
                   FALSE)
    ELSE Responded(tasks,
                   send_json([jsonrpc |-> "2.0",
                              error |-> [code |-> -32000,
                                         message |-> [fmt |-> "Task not found: {task_id}", task_id |-> task_id.value]],
                              id |-> req_id], 404),
                   FALSE)

handle_tasks_list(params, req_id) ==
    Responded(tasks,
              send_json([jsonrpc |-> "2.0", result |-> [tasks |-> Values(tasks)],
                         id |-> req_id], 200),
              FALSE)

\* a cancel that toggles
set_cancelled_toggle(task) ==
    [task EXCEPT !.state = IF task.state = "cancelled" THEN "completed" ELSE "cancelled"]

\* tasks[task_id]['state'] = 'cancelled', on the task dict
set_cancelled(task) == [task EXCEPT !.state = "cancelled"]

handle_tasks_cancel(params, req_id) ==
    LET task_id == PyGet(params, "taskId", PyNone) IN
    IF Raised(task_id) THEN Unhandled(task_id)
    ELSE IF ~Hashable(task_id.value) THEN Unhandled(Raise("TypeError"))
    ELSE IF HasKey(tasks, task_id.value)
    THEN LET updated == SetItem(tasks, task_id.value,
                                set_cancelled(Lookup(tasks, task_id.value)))
         IN  Responded(updated,
                       send_json([jsonrpc |-> "2.0", result |-> Lookup(updated, task_id.value),
                                  id |-> req_id], 200),
                       FALSE)
    ELSE Responded(tasks,
                   send_json([jsonrpc |-> "2.0",
                              error |-> [code |-> -32000,
                                         message |-> [fmt |-> "Task not found: {task_id}", task_id |-> task_id.value]],
                              id |-> req_id], 404),
                   FALSE)

----------------------------------------------------------------------------
(* do_POST.  An HTTP request is its Content-Length header and its body; a  *)
(* body is bytes that are not valid UTF-8, text that is not JSON, or the   *)
(* encoding of a JSON value.                                               *)

\* int(self.headers.get('Content-Length', 0)) and self.rfile.read(content_length)
read_body(http) ==
    CASE http.content_length = "absent"     -> Return([bytes |-> "empty"])
      [] http.content_length = "nonnumeric" -> Raise("ValueError")
      [] OTHER                              -> Return(http.body)

json_loads(body) ==
    CASE body.bytes = "json"         -> Return(body.value)
      [] body.bytes = "invalid-utf8" -> Raise("UnicodeDecodeError")
      [] OTHER                       -> Raise("JSONDecodeError")

do_POST(http, task_id) ==
    LET body == read_body(http) IN
    IF Raised(body) THEN Unhandled(body)
    ELSE LET parsed == json_loads(body.value) IN
    IF Raised(parsed) /\ parsed.raised = "JSONDecodeError"
    THEN Responded(tasks,
                   send_json([jsonrpc |-> "2.0",
                              error |-> [code |-> -32700, message |-> [fmt |-> "Parse error"]],
                              id |-> PyNone], 400),
                   FALSE)
    ELSE IF Raised(parsed) THEN Unhandled(parsed)
    ELSE LET jsonrpc == PyGet(parsed.value, "jsonrpc", PyNone) IN
    IF Raised(jsonrpc) THEN Unhandled(jsonrpc)
    ELSE LET method == PyGet(parsed.value, "method", PyNone).value
             params == PyGet(parsed.value, "params", EmptyDict).value
             req_id == PyGet(parsed.value, "id", PyNone).value
         IN
    IF jsonrpc.value # PyStr("2.0")
    THEN Responded(tasks,
                   send_json([jsonrpc |-> "2.0",
                              error |-> [code |-> -32600, message |-> [fmt |-> "Invalid Request"]],
                              id |-> req_id], 400),
                   FALSE)
    ELSE IF method = PyStr("message/send") THEN handle_message_send(params, req_id, task_id)
    ELSE IF method = PyStr("tasks/get") THEN handle_tasks_get(params, req_id)
    ELSE IF method = PyStr("tasks/list") THEN handle_tasks_list(params, req_id)
    ELSE IF method = PyStr("tasks/cancel") THEN handle_tasks_cancel(params, req_id)
    ELSE Responded(tasks,
                   send_json([jsonrpc |-> "2.0",
                              error |-> [code |-> -32601,
                                         message |-> [fmt |-> "Method not found: {method}", method |-> method]],
                              id |-> req_id], 400),
                   FALSE)

----------------------------------------------------------------------------
(* uuid.uuid4(): a value it has not returned before.  (A uuid4 is 122      *)
(* random bits; the model takes a repeat to be impossible.)                *)

UUIDPool == <<"uuid-1", "uuid-2", "uuid-3", "uuid-4">>

UUIDs == {UUIDPool[i] : i \in 1..MaxTasks}

\* uuid4 as a generator that can repeat itself
uuid4_repeating == UUIDs

uuid4 == UUIDs \ uuids

----------------------------------------------------------------------------
(* The requests clients send *)

\* marks a key the client leaves out of an object
Absent == [t |-> "absent"]

\* the JSON object with the keys of f that are not Absent
Object(f) == PyDict([k \in {x \in DOMAIN f : f[x] # Absent} |-> f[k]])

Post(value) == [content_length |-> "valid", body |-> [bytes |-> "json", value |-> value]]

Rpc(jsonrpc, method, params, id) ==
    Post(Object([jsonrpc |-> jsonrpc, method |-> method, params |-> params, id |-> id]))

TextPart(chars) == PyDict([text |-> PyText(chars)])

ReqIds == {Absent, PyStr("req-1")}

\* a well-formed message; its text is "hi"
MsgUser == PyDict([role |-> PyStr("user"), parts |-> PyList(<<TextPart(<<"h", "i">>)>>)])

\* a message that claims the agent role and carries an id and a state of its own
MsgForged ==
    PyDict([role |-> PyStr("agent"), id |-> PyStr(UUIDPool[1]), state |-> PyStr("cancelled"),
            parts |-> PyList(<<TextPart(<<"E", "c", "h", "o">>), PyDict([kind |-> PyStr("file")])>>)])

SendParams ==
    { Object([message |-> MsgUser]),
      Object([message |-> MsgForged, taskId |-> PyStr(UUIDPool[1]), id |-> PyStr(UUIDPool[2])]),
      Object([message |-> PyNone]),
      Object([message |-> PyDict([role |-> PyStr("user"), parts |-> PyList(<<PyNum(5)>>)])]) }

TaskIdValues ==
    {Absent, PyNum(1), PyList(<<>>), PyStr("no-such-task")} \cup {PyStr(u) : u \in UUIDs}

TaskParams == {Object([taskId |-> v]) : v \in TaskIdValues} \cup {PyNone}

SendRequests == {Rpc(PyStr("2.0"), PyStr("message/send"), p, i) : p \in SendParams, i \in ReqIds}

GetRequests == {Rpc(PyStr("2.0"), PyStr("tasks/get"), p, i) : p \in TaskParams, i \in ReqIds}

CancelRequests == {Rpc(PyStr("2.0"), PyStr("tasks/cancel"), p, i) : p \in TaskParams, i \in ReqIds}

ListRequests == {Rpc(PyStr("2.0"), PyStr("tasks/list"), p, i) : p \in {Absent, PyNone}, i \in ReqIds}

Methods ==
    {PyStr("message/send"), PyStr("tasks/get"), PyStr("tasks/list"), PyStr("tasks/cancel"),
     PyStr("foo/bar"), Absent}

UnknownMethodRequests ==
    {Rpc(PyStr("2.0"), m, Absent, i) : m \in {PyStr("foo/bar"), Absent}, i \in ReqIds}

BadVersionRequests ==
    {Rpc(v, m, Absent, PyStr("req-1")) : v \in {Absent, PyStr("1.0"), PyNum(2)}, m \in Methods}
    \cup {Rpc(PyStr("1.0"), PyStr("message/send"), Object([message |-> MsgUser]), Absent)}

NotJsonRequests ==
    { [content_length |-> "valid", body |-> [bytes |-> "malformed"]],
      [content_length |-> "valid", body |-> [bytes |-> "invalid-utf8"]],
      [content_length |-> "absent", body |-> [bytes |-> "json", value |-> PyList(<<>>)]],
      [content_length |-> "nonnumeric", body |-> [bytes |-> "empty"]] }

NotObjectRequests == {Post(PyList(<<>>)), Post(PyText(<<"h", "i">>)), Post(PyNone), Post(PyNum(1))}

----------------------------------------------------------------------------
(* The specification: any sequence of POST requests *)

NoRequest == [none |-> TRUE]

\* the request is a JSON-RPC 2.0 call of the method
IsCall(http, method) ==
    /\ "body" \in DOMAIN http
    /\ http.content_length = "valid"
    /\ http.body.bytes = "json"
    /\ http.body.value.t = "dict"
    /\ "jsonrpc" \in DOMAIN http.body.value.fields
    /\ http.body.value.fields["jsonrpc"] = PyStr("2.0")
    /\ "method" \in DOMAIN http.body.value.fields
    /\ http.body.value.fields["method"] = PyStr(method)

IsResult(resp) == "status" \in DOMAIN resp /\ "result" \in DOMAIN resp.body

IsError(resp) == "status" \in DOMAIN resp /\ "error" \in DOMAIN resp.body

Init ==
    /\ tasks = <<>>
    /\ uuids = {}
    /\ request = NoRequest
    /\ response = NoRequest
    /\ sent = 0
    /\ cancelled = {}

\* one POST request, from do_POST's first line to its last; uuid4 is drawn only
\* by a request that reaches line 144
Handle(http) ==
    \E u \in (IF do_POST(http, PyNone).drew THEN uuid4 ELSE {UUIDPool[1]}) :
        \E out \in {do_POST(http, PyStr(u))} :
        /\ out.drew => sent < MaxTasks
        /\ tasks' = out.tasks
        /\ uuids' = IF out.drew THEN uuids \cup {u} ELSE uuids
        /\ request' = http
        /\ response' = out.response
        /\ sent' = IF IsCall(http, "message/send") /\ IsResult(out.response)
                   THEN sent + 1 ELSE sent
        /\ cancelled' = IF IsCall(http, "tasks/cancel") /\ IsResult(out.response)
                        THEN cancelled \cup {out.response.body.result.id} ELSE cancelled

MessageSend ==
    \E http \in SendRequests :
        /\ http \in SendRequests
        /\ Handle(http)

TasksGet ==
    \E http \in GetRequests :
        /\ http \in GetRequests
        /\ Handle(http)

TasksList ==
    \E http \in ListRequests :
        /\ http \in ListRequests
        /\ Handle(http)

TasksCancel ==
    \E http \in CancelRequests :
        /\ http \in CancelRequests
        /\ Handle(http)

UnknownMethod ==
    \E http \in UnknownMethodRequests :
        /\ http \in UnknownMethodRequests
        /\ Handle(http)

BadVersion ==
    \E http \in BadVersionRequests :
        /\ http \in BadVersionRequests
        /\ Handle(http)

NotJson ==
    \E http \in NotJsonRequests :
        /\ http \in NotJsonRequests
        /\ Handle(http)

NotObject ==
    \E http \in NotObjectRequests :
        /\ http \in NotObjectRequests
        /\ Handle(http)

Next ==
    \/ MessageSend
    \/ TasksGet
    \/ TasksList
    \/ TasksCancel
    \/ UnknownMethod
    \/ BadVersion
    \/ NotJson
    \/ NotObject

Spec == Init /\ [][Next]_vars

----------------------------------------------------------------------------
(* The text-classification specification: the first request the server    *)
(* handles is a message/send whose message is drawn from the parts below.  *)

Texts ==
    { <<"h", "e", "l", "l", "o">>,
      <<"H", "e", "L", "L", "o">>,
      <<"H", "I">>,
      <<"h">>,
      <<"i">>,
      <<"h", "e", "l", "p">>,
      <<"H", "e", "L", "P">>,
      <<"h", "e", "l">>,
      <<"p">>,
      <<"l", "o">>,
      <<"e", "c", "h", "o">>,
      <<"E", "C", "H", "O">>,
      <<"e", "c">>,
      <<"h", "o">>,
      <<"x">>,
      <<"p", "l", "e", "a", "s", "e", " ", "e", "c", "h", "o", " ", "t", "h", "i", "s">>,
      <<"p", "l", "e", "a", "s", "e", " ", "e", "c", "h", "o", " ">>,
      <<"t", "h", "i", "s">> }

\* parts that are no object with a string under "text"
OtherParts ==
    { PyDict([kind |-> PyStr("file")]),
      PyDict([text |-> PyNum(5)]),
      PyDict([text |-> PyNone]),
      PyNum(5),
      PyText(TextKey),
      PyText(<<"h", "i">>),
      PyList(<<PyText(TextKey)>>),
      PyList(<<>>) }

Parts == {TextPart(c) : c \in Texts} \cup OtherParts

PartLists == UNION {[1..n -> Parts] : n \in 0..MaxParts}

TextSendRequests ==
    { Rpc(PyStr("2.0"), PyStr("message/send"),
          Object([message |-> PyDict([role |-> PyStr("user"), parts |-> PyList(ps)])]),
          PyStr("req-1")) : ps \in PartLists }

\* message/send whose params, message or parts are of another type, or left out
OddSendRequests ==
    { Rpc(PyStr("2.0"), PyStr("message/send"), p, PyStr("req-1")) :
        p \in { Absent, PyNone, PyList(<<>>), PyText(<<"h", "i">>),
                Object([message |-> PyNone]),
                Object([message |-> PyList(<<>>)]),
                Object([message |-> PyDict([role |-> PyStr("user")])]),
                Object([message |-> PyDict([parts |-> PyNone])]),
                Object([message |-> PyDict([parts |-> PyNum(5)])]),
                Object([message |-> PyDict([parts |-> PyText(<<"h", "i">>)])]),
                Object([message |-> PyDict([parts |-> PyText(TextKey)])]) } }

TextSend ==
    \E http \in TextSendRequests :
        /\ request = NoRequest
        /\ Handle(http)

OddSend ==
    \E http \in OddSendRequests :
        /\ request = NoRequest
        /\ Handle(http)

NextText ==
    \/ TextSend
    \/ OddSend

TextSpec == Init /\ [][NextText]_vars

----------------------------------------------------------------------------
(* What a request asks for and what a response says, read off the request  *)
(* and the response themselves                                             *)

\* the request's bytes are read and are the encoding of a JSON value
ParsesAsJson(http) == http.content_length = "valid" /\ http.body.bytes = "json"

\* the member of the request object under key; None when there is none
Member(http, key) ==
    IF ParsesAsJson(http) /\ http.body.value.t = "dict" /\ key \in DOMAIN http.body.value.fields
    THEN http.body.value.fields[key]
    ELSE PyNone

\* the member of the request's params under key; None when there is none
Param(http, key) ==
    IF Member(http, "params").t = "dict" /\ key \in DOMAIN Member(http, "params").fields
    THEN Member(http, "params").fields[key]
    ELSE PyNone

\* the request's params are an object, or are left out
ParamsAreObject(http) ==
    "params" \in DOMAIN http.body.value.fields => Member(http, "params").t = "dict"

\* the submitted message; {} when the params have none
SentMessage(http) ==
    IF Member(http, "params").t = "dict" /\ "message" \in DOMAIN Member(http, "params").fields
    THEN Param(http, "message")
    ELSE EmptyDict

\* the parts of the submitted message, when they are a list
SentParts(http) ==
    IF /\ SentMessage(http).t = "dict"
       /\ "parts" \in DOMAIN SentMessage(http).fields
       /\ SentMessage(http).fields["parts"].t = "list"
    THEN SentMessage(http).fields["parts"].items
    ELSE <<>>

HasTextField(part) ==
    part.t = "dict" /\ "text" \in DOMAIN part.fields /\ part.fields["text"].t = "str"

RECURSIVE JoinTexts(_)
\* the text fields of the parts that have one, in order, nothing between them
JoinTexts(parts) ==
    IF Len(parts) = 0 THEN <<>>
    ELSE (IF HasTextField(Head(parts)) THEN Head(parts).fields["text"].chars ELSE <<>>)
         \o JoinTexts(Tail(parts))

SentText(http) == JoinTexts(SentParts(http))

\* the same letter, whatever its case (word is in lower case)
SameLetter(c, w) == c = w \/ \E k \in DOMAIN UpperCase : UpperCase[k] = c /\ LowerCase[k] = w

\* text contains word, case ignored
Mentions(text, word) ==
    \E i \in 1..Len(text) :
        /\ i + Len(word) - 1 <= Len(text)
        /\ \A j \in 1..Len(word) : SameLetter(text[i + j - 1], word[j])

\* the text of the agent's reply in a message/send result
ReplyText(resp) == resp.body.result.messages[2].fields["parts"].items[1].fields["text"].chars

\* the message has the shape the data model gives it: an object whose parts are a
\* list of objects, each with a string under "text" or with no "text" at all
WellFormedSend(http) ==
    /\ ParamsAreObject(http)
    /\ SentMessage(http).t = "dict"
    /\ "parts" \in DOMAIN SentMessage(http).fields => SentMessage(http).fields["parts"].t = "list"
    /\ \A i \in DOMAIN SentParts(http) :
          /\ SentParts(http)[i].t = "dict"
          /\ "text" \in DOMAIN SentParts(http)[i].fields => HasTextField(SentParts(http)[i])

Keys(table) == {table[i].key : i \in DOMAIN table}

ErrorCode(resp) == resp.body.error.code

----------------------------------------------------------------------------
(* C1 *)

\* C1: the task table holds, and tasks/list returns, exactly as many tasks as
\* message/send calls have been answered with a task, whatever requests came in
\* between: each such call adds one task and nothing removes or overwrites one.
C1_ListReturnsEverySentTask ==
    /\ Len(tasks) = sent
    /\ Cardinality(Keys(tasks)) = sent
    /\ IsCall(request, "tasks/list") =>
          /\ IsResult(response)
          /\ response.status = 200
          /\ Len(response.body.result.tasks) = sent

C1_Witness ==
    /\ IsCall(request, "tasks/list")
    /\ IsResult(response)
    /\ Len(response.body.result.tasks) = 2
    /\ sent = 2
    /\ cancelled # {}

----------------------------------------------------------------------------
(* C2 *)

PleaseEchoThis == <<"p", "l", "e", "a", "s", "e", " ", "e", "c", "h", "o", " ", "t", "h", "i", "s">>

EchoPleaseEchoThis ==
    <<"E", "c", "h", "o", ":", " ", "p", "l", "e", "a", "s", "e", " ", "e", "c", "h", "o", " ", "t", "h", "i", "s">>

\* C2: a message/send whose parts' texts join to "please echo this" is answered
\* with the reply text "Echo: please echo this".
C2_PleaseEchoThisIsEchoed ==
    (IsCall(request, "message/send") /\ IsResult(response) /\ SentText(request) = PleaseEchoThis)
        => ReplyText(response) = EchoPleaseEchoThis

----------------------------------------------------------------------------
(* C3 *)

IsGreeting(text) == Mentions(text, <<"h", "e", "l", "l", "o">>) \/ Mentions(text, <<"h", "i">>)

IsHelp(text) == Mentions(text, <<"h", "e", "l", "p">>)

IsEcho(text) == Mentions(text, <<"e", "c", "h", "o">>)

\* C3: the reply to a message/send is chosen from the joined texts of the parts
\* that have one, case ignored, in this order: "hello" or "hi" gives the greeting,
\* else "help" gives the help reply, else "echo" gives "Echo: " and the text as
\* sent, else the acknowledgement around the text as sent; a message of the data
\* model's shape always gets such a reply.
C3_ReplyByPriority ==
    IsCall(request, "message/send") =>
        /\ WellFormedSend(request) => IsResult(response)
        /\ IsResult(response) =>
              LET text == SentText(request)
                  reply == ReplyText(response)
              IN  /\ IsGreeting(text) => reply = GREETING
                  /\ (~IsGreeting(text) /\ IsHelp(text)) => reply = HELP
                  /\ (~IsGreeting(text) /\ ~IsHelp(text) /\ IsEcho(text))
                        => reply = ECHO_PREFIX \o text
                  /\ (~IsGreeting(text) /\ ~IsHelp(text) /\ ~IsEcho(text))
                        => /\ reply = ACK_PREFIX \o text \o ACK_SUFFIX
                           /\ reply \notin {GREETING, HELP}

\* a reply to a text, sent in two parts and partly in upper case, that asks for
\* help and for an echo: help wins
C3_Witness ==
    /\ IsCall(request, "message/send")
    /\ IsResult(response)
    /\ Len(SentParts(request)) = 2
    /\ IsHelp(SentText(request))
    /\ IsEcho(SentText(request))
    /\ ~IsGreeting(SentText(request))
    /\ ~Contains(<<"h", "e", "l", "p">>, SentText(request))
    /\ ReplyText(response) = HELP

----------------------------------------------------------------------------
(* C4 *)

\* the request is a tasks/get for an id that a message/send has returned
GetsReturnedTask(u) == IsCall(request, "tasks/get") /\ Param(request, "taskId") = PyStr(u)

\* C4 as stated: a tasks/get for an id that a message/send returned is answered
\* 200 with that task in state "completed", whatever was handled in between.
C4_GetAlwaysCompleted ==
    \A u \in uuids :
        GetsReturnedTask(u) =>
            /\ IsResult(response)
            /\ response.status = 200
            /\ response.body.result.id = PyStr(u)
            /\ response.body.result.state = "completed"

\* C4, amended: a tasks/get for an id that a message/send returned is answered
\* 200 with that task, in state "cancelled" when a tasks/cancel for the id was
\* answered with a result in between and in state "completed" otherwise.
C4_GetCompletedUnlessCancelled ==
    \A u \in uuids :
        GetsReturnedTask(u) =>
            /\ IsResult(response)
            /\ response.status = 200
            /\ response.body.result.id = PyStr(u)
            /\ response.body.result.state =
                  IF PyStr(u) \in cancelled THEN "cancelled" ELSE "completed"

\* a tasks/get that finds a later task completed after some task was cancelled
C4_Witness ==
    /\ \E u \in uuids : GetsReturnedTask(u)
    /\ IsResult(response)
    /\ response.body.result.state = "completed"
    /\ response.body.result.id # tasks[1].key
    /\ cancelled # {}

----------------------------------------------------------------------------
(* C5 *)

CancelsTask(http, key) == IsCall(http, "tasks/cancel") /\ Param(http, "taskId") = key

GetsTask(http, key) == IsCall(http, "tasks/get") /\ Param(http, "taskId") = key

\* C5: tasks/cancel for an id in the table is answered 200 with the task, now in
\* state "cancelled"; a cancelled task stays cancelled under every request, and
\* tasks/get, tasks/list and a further tasks/cancel report it so; a second
\* cancel leaves the table as the first left it.
C5_CancelledForGood ==
    [][ \A i \in DOMAIN tasks :
          /\ CancelsTask(request', tasks[i].key) =>
                /\ IsResult(response')
                /\ response'.status = 200
                /\ response'.body.result.id = tasks[i].key
                /\ response'.body.result.state = "cancelled"
                /\ tasks'[i].value.state = "cancelled"
          /\ tasks[i].value.state = "cancelled" =>
                /\ i \in DOMAIN tasks'
                /\ tasks'[i].key = tasks[i].key
                /\ tasks'[i].value.state = "cancelled"
                /\ CancelsTask(request', tasks[i].key) => tasks' = tasks
                /\ GetsTask(request', tasks[i].key) =>
                      IsResult(response') /\ response'.body.result.state = "cancelled"
                /\ IsCall(request', "tasks/list") =>
                      response'.body.result.tasks[i].state = "cancelled"
      ]_vars

\* a tasks/get that reports the first task, cancelled earlier, next to a task
\* that was not cancelled
C5_Witness ==
    /\ \E i \in DOMAIN tasks : GetsTask(request, tasks[i].key) /\ tasks[i].key \in cancelled
    /\ response.body.result.state = "cancelled"
    /\ tasks[Len(tasks)].key \notin cancelled
    /\ tasks[1].key \in cancelled

----------------------------------------------------------------------------
(* C6 *)

\* C6: tasks/get or tasks/cancel whose params carry a taskId that is no key of
\* the table, or carry none, is answered 404 with error -32000 and the request's
\* id, and leaves the table as it was.
C6_UnknownTaskIs404 ==
    [][ ( /\ IsCall(request', "tasks/get") \/ IsCall(request', "tasks/cancel")
          /\ ParamsAreObject(request')
          /\ Param(request', "taskId") \notin Keys(tasks) )
        => /\ IsError(response')
           /\ response'.status = 404
           /\ ErrorCode(response') = -32000
           /\ response'.body.id = Member(request', "id")
           /\ tasks' = tasks
      ]_vars

----------------------------------------------------------------------------
(* C7 *)

KnownMethods ==
    {PyStr("message/send"), PyStr("tasks/get"), PyStr("tasks/list"), PyStr("tasks/cancel")}

\* the Content-Length header is a number or is left out
LengthReadable(http) == http.content_length # "nonnumeric"

\* C7: for a request whose Content-Length can be read,
\* a body that is no JSON is answered 400 with -32700 and id null; else a
\* jsonrpc member that is missing or not "2.0" is answered 400 with -32600 and
\* the request's id, whatever the method; else a method that is none of the four
\* is answered 400 with -32601 and a message naming it; a rejected request
\* leaves the table as it was; 200 comes only with a result, 404 only with -32000.
C7_ValidationOrder ==
    [][ LengthReadable(request') =>
          /\ ~ParsesAsJson(request') =>
                /\ IsError(response')
                /\ response'.status = 400
                /\ ErrorCode(response') = -32700
                /\ response'.body.id = PyNone
          /\ (ParsesAsJson(request') /\ Member(request', "jsonrpc") # PyStr("2.0")) =>
                /\ IsError(response')
                /\ response'.status = 400
                /\ ErrorCode(response') = -32600
                /\ response'.body.id = Member(request', "id")
          /\ ( /\ ParsesAsJson(request')
               /\ Member(request', "jsonrpc") = PyStr("2.0")
               /\ Member(request', "method") \notin KnownMethods ) =>
                /\ IsError(response')
                /\ response'.status = 400
                /\ ErrorCode(response') = -32601
                /\ response'.body.error.message.method = Member(request', "method")
                /\ response'.body.id = Member(request', "id")
          /\ ("status" \in DOMAIN response' /\ response'.status = 400) => tasks' = tasks
          /\ ("status" \in DOMAIN response' /\ response'.status = 200) => IsResult(response')
          /\ ("status" \in DOMAIN response' /\ response'.status = 404) =>
                IsError(response') /\ ErrorCode(response') = -32000
      ]_vars

----------------------------------------------------------------------------
(* C8 *)

\* a JSON-RPC envelope with the HTTP status that goes with it
IsEnvelope(resp) ==
    /\ "status" \in DOMAIN resp
    /\ \/ IsResult(resp) /\ ~IsError(resp) /\ resp.status = 200
       \/ IsError(resp) /\ ~IsResult(resp) /\ ErrorCode(resp) \in {-32700, -32600, -32601}
                        /\ resp.status = 400
       \/ IsError(resp) /\ ~IsResult(resp) /\ ErrorCode(resp) = -32000 /\ resp.status = 404

\* C8: every POST request, whatever its body, is answered with one JSON-RPC
\* envelope and the HTTP status that goes with it.
C8_EveryRequestAnswered == request # NoRequest => IsEnvelope(response)

----------------------------------------------------------------------------
(* C9 *)

\* C9: every key of the table is a uuid the server drew, differs from every
\* other key and is the id of the task under it; a request adds a key only by
\* drawing it, and never puts another task under a key already there.
C9_KeysAreServerMade ==
    [][ /\ \A i \in DOMAIN tasks' :
              /\ tasks'[i].key \in {PyStr(u) : u \in uuids'}
              /\ tasks'[i].value.id = tasks'[i].key
              /\ \A j \in DOMAIN tasks' : tasks'[j].key = tasks'[i].key => j = i
        /\ Keys(tasks') \ Keys(tasks) = {PyStr(u) : u \in uuids' \ uuids}
        /\ \A i \in DOMAIN tasks :
              /\ i \in DOMAIN tasks'
              /\ tasks'[i].key = tasks[i].key
              /\ tasks'[i].value.id = tasks[i].value.id
              /\ tasks'[i].value.messages = tasks[i].value.messages
      ]_vars

\* a second task, stored for a message that carried an id of its own and came
\* with a taskId: neither is its key
C9_Witness ==
    /\ Len(tasks) = 2
    /\ "id" \in DOMAIN tasks[2].value.messages[1].fields
    /\ tasks[2].value.messages[1].fields["id"] # tasks[2].key
    /\ tasks[2].value.id = tasks[2].key
    /\ IsCall(request, "message/send")
    /\ Param(request, "taskId") # PyNone
    /\ Param(request, "taskId") # tasks[2].key

----------------------------------------------------------------------------
(* C10 *)

\* every stored task is completed or cancelled and holds two messages, the
\* second the agent's reply of one part
TaskShape(task) ==
    /\ task.state \in {"completed", "cancelled"}
    /\ Len(task.messages) = 2
    /\ task.messages[2].fields["role"] = PyStr("agent")
    /\ Len(task.messages[2].fields["parts"].items) = 1

\* C10: tasks/get and tasks/list leave the table as it was; a tasks/cancel
\* answered with a result changes the state of its task and nothing else;
\* a message/send answered with a result appends one task, completed, whose
\* first message is the message as submitted, and leaves the others as they
\* were; every stored task is completed or cancelled and keeps its two messages.
C10_Frame ==
    [][ /\ (IsCall(request', "tasks/get") \/ IsCall(request', "tasks/list")) => tasks' = tasks
        /\ (IsCall(request', "tasks/cancel") /\ IsResult(response')) =>
              /\ DOMAIN tasks' = DOMAIN tasks
              /\ \A i \in DOMAIN tasks :
                    tasks'[i] = IF tasks[i].key = Param(request', "taskId")
                                THEN [tasks[i] EXCEPT !.value.state = "cancelled"]
                                ELSE tasks[i]
        /\ (IsCall(request', "message/send") /\ IsResult(response')) =>
              /\ Len(tasks') = Len(tasks) + 1
              /\ \A i \in DOMAIN tasks : tasks'[i] = tasks[i]
              /\ tasks'[Len(tasks')].value.state = "completed"
              /\ tasks'[Len(tasks')].value.messages[1] = SentMessage(request')
              /\ response'.body.result = tasks'[Len(tasks')].value
        /\ \A i \in DOMAIN tasks' : TaskShape(tasks'[i].value)
        /\ \A i \in DOMAIN tasks :
              /\ tasks'[i].value.id = tasks[i].value.id
              /\ tasks'[i].value.messages = tasks[i].value.messages
      ]_vars

\* a cancelled task whose stored message came with the agent role, next to a
\* completed one, just after the cancel
C10_Witness ==
    /\ Len(tasks) = 2
    /\ IsCall(request, "tasks/cancel")
    /\ IsResult(response)
    /\ \E i \in DOMAIN tasks :
          /\ tasks[i].value.state = "cancelled"
          /\ tasks[i].value.messages[1].fields["role"] = PyStr("agent")
          /\ \E j \in DOMAIN tasks : tasks[j].value.state = "completed"

====
